---- MODULE Spec2Model ----
(***************************************************************************)
(* ShotCounter team ledger (shotcounter.py): the request handlers          *)
(* api_get_teams, api_add_team, api_change_score and api_hide_team run on  *)
(* concurrent request threads, share the file teams.json and serialise     *)
(* their access to it with the module-level threading.Lock data_lock.      *)
(***************************************************************************)
EXTENDS Integers, Sequences, FiniteSets, TLC

(* ------------------------------ bounds -------------------------------- *)

\* number of request threads serving handlers concurrently
NumProcs == 2
\* total number of requests the threads accept
MaxRequests == 3
\* records of a teams.json left by an earlier run of the server
MaxLedger == 2
\* the highest score of a record of such a file
MaxScore == 1
Procs == 1..NumProcs

\* deltas that /api/score requests carry (after int(delta))
Deltas == {-2, 1}

\* names that /api/team requests carry, as sequences of characters
NameInputs ==
  { <<>>, <<" ">>, <<"A">>, <<" ", "a", " ">>, <<"B">> }

VARIABLES
  file,      \* teams.json: [kind: absent | json | malformed, data: file content]
  locked,    \* data_lock is held
  pc,        \* pc[p]: where request thread p is in its handler
  op,        \* op[p]: the request thread p serves: [kind, raw, name, id, delta]
  teams,     \* teams[p]: the handler's local list `teams`
  response,  \* response[p]: what the handler returned: [code, message, body]
  nextId,    \* the number of ids uuid.uuid4() has issued, plus one
  started,   \* requests accepted so far
  applied,   \* applied[id]: deltas of the score changes saved for id, in order
  committed, \* the list of the last save_teams call that completed
  everHidden, \* the ids of the records some completed save has written hidden
  seqFile,   \* teams.json after the requests that have left the lock so far,
             \* each run alone and in that order
  expected   \* expected[p]: the response of p's request in that run

vars == <<file, locked, pc, op, teams, response, nextId, started, applied,
          committed, everHidden, seqFile, expected>>

(* ------------------------- strings: strip, lower ---------------------- *)

IsSpace(c) == c = " "

\* str.lower() on one character
LowerChar(c) ==
  CASE c = "A" -> "a"
    [] c = "B" -> "b"
    [] OTHER -> c

\* str.lower()
lower(s) == [i \in DOMAIN s |-> LowerChar(s[i])]

RECURSIVE lstrip(_)
lstrip(s) ==
  IF s = <<>> THEN <<>>
  ELSE IF IsSpace(Head(s)) THEN lstrip(Tail(s)) ELSE s

RECURSIVE rstrip(_)
rstrip(s) ==
  IF s = <<>> THEN <<>>
  ELSE IF IsSpace(s[Len(s)]) THEN rstrip(SubSeq(s, 1, Len(s) - 1)) ELSE s

\* strip that leaves the whitespace at the end
strip_LeftOnly(s) == lstrip(s)

\* str.strip()
strip(s) == rstrip(lstrip(s))

(* ------------------------- the persisted file ------------------------- *)

\* json.dump(teams, f): the list of objects, each written field by field
json_dump(ts) ==
  [i \in DOMAIN ts |-> <<ts[i].id, ts[i].name, ts[i].score, ts[i].hidden>>]

\* json.load(f) of a well-formed file
json_load(data) ==
  [i \in DOMAIN data |->
     [id |-> data[i][1], name |-> data[i][2],
      score |-> data[i][3], hidden |-> data[i][4]]]

AbsentFile == [kind |-> "absent", data |-> <<>>]
\* the file after open(DATA_FILE, "w") and before the dump is complete
TruncatedFile == [kind |-> "malformed", data |-> <<>>]
JsonFile(ts) == [kind |-> "json", data |-> json_dump(ts)]

\* load_teams(): [] when the file is missing or does not decode
load_teams(f) ==
  IF f.kind = "absent" THEN <<>>
  ELSE IF f.kind = "json" THEN json_load(f.data)
  ELSE <<>>

(* ------------------------------ helpers ------------------------------- *)

Max(a, b) == IF a >= b THEN a ELSE b

\* no request; id 0 stands for a missing (falsy) team id, issued ids start at 1
\* raw is the name as the request carries it, name is `name` after strip()
NoOp == [kind |-> "none", raw |-> <<>>, name |-> <<>>, id |-> 0, delta |-> 0]
NoResponse == [code |-> 0, message |-> "", body |-> <<>>]

ErrorResponse(code, message) ==
  [code |-> code, message |-> message, body |-> <<>>]
OkResponse(body) == [code |-> 200, message |-> "ok", body |-> body]

\* the loop `for t in teams: if ...: break` stops at the first of the indexes
\* that match; 0 when none does (found stays False)
FirstIndex(hits) ==
  IF hits = {} THEN 0
  ELSE CHOOSE i \in hits : \A j \in hits : i <= j

\* [t for t in teams if not t.get("hidden", False)]
RECURSIVE Visible(_)
Visible(ts) ==
  IF ts = <<>> THEN <<>>
  ELSE IF Head(ts).hidden THEN Visible(Tail(ts))
       ELSE <<Head(ts)>> \o Visible(Tail(ts))

\* InsertDesc putting t before the elements of its own score
RECURSIVE InsertDesc_TiesReversed(_, _)
InsertDesc_TiesReversed(sorted, t) ==
  IF sorted = <<>> THEN <<t>>
  ELSE IF Head(sorted).score > t.score
       THEN <<Head(sorted)>> \o InsertDesc_TiesReversed(Tail(sorted), t)
       ELSE <<t>> \o sorted

\* insert t after the elements of the sorted list whose score is >= t's
RECURSIVE InsertDesc(_, _)
InsertDesc(sorted, t) ==
  IF sorted = <<>> THEN <<t>>
  ELSE IF Head(sorted).score >= t.score
       THEN <<Head(sorted)>> \o InsertDesc(Tail(sorted), t)
       ELSE <<t>> \o sorted

\* list.sort(key=score, reverse=True): stable, equal scores keep their order
RECURSIVE SortDesc(_)
SortDesc(ts) ==
  IF ts = <<>> THEN <<>>
  ELSE InsertDesc(SortDesc(SubSeq(ts, 1, Len(ts) - 1)), ts[Len(ts)])

(* ------------- the handlers run alone, from request to response ------- *)

\* [t for t in teams if not hidden and same lower-cased name] is not empty
SeqNameTaken(ts, name) ==
  \E i \in DOMAIN ts : ~ts[i].hidden /\ lower(ts[i].name) = lower(name)

\* api_get_teams run alone on the file f
SeqGetTeams(f) ==
  [file |-> f, response |-> OkResponse(SortDesc(Visible(load_teams(f))))]

\* api_add_team run alone on the file f; id is the uuid4 it draws and fails
\* tells whether the write of save_teams raises
SeqAddTeam(f, name, id, fails) ==
  LET ts == load_teams(f)
      team == [id |-> id, name |-> name, score |-> 0, hidden |-> FALSE]
  IN IF SeqNameTaken(ts, name)
     THEN [file |-> f, response |-> ErrorResponse(400, "Team already exists")]
     ELSE IF fails
     THEN [file |-> TruncatedFile,
           response |-> ErrorResponse(500, "Internal Server Error")]
     ELSE [file |-> JsonFile(Append(ts, team)),
           response |-> OkResponse(<<team>>)]

\* api_change_score run alone on the file f
SeqChangeScore(f, id, delta, fails) ==
  LET ts == load_teams(f)
      hits == {i \in DOMAIN ts : ts[i].id = id /\ ~ts[i].hidden}
  IN IF hits = {}
     THEN [file |-> f, response |-> ErrorResponse(404, "Team not found")]
     ELSE IF fails
     THEN [file |-> TruncatedFile,
           response |-> ErrorResponse(500, "Internal Server Error")]
     ELSE LET i == CHOOSE h \in hits : \A j \in hits : h <= j
              new == IF ts[i].score + delta < 0 THEN 0 ELSE ts[i].score + delta
          IN [file |-> JsonFile([ts EXCEPT ![i].score = new]),
              response |-> OkResponse(<<>>)]

\* api_hide_team run alone on the file f
SeqHideTeam(f, id, fails) ==
  LET ts == load_teams(f)
      hits == {i \in DOMAIN ts : ts[i].id = id}
  IN IF hits = {}
     THEN [file |-> f, response |-> ErrorResponse(404, "Team not found")]
     ELSE IF fails
     THEN [file |-> TruncatedFile,
           response |-> ErrorResponse(500, "Internal Server Error")]
     ELSE LET i == CHOOSE h \in hits : \A j \in hits : h <= j
          IN [file |-> JsonFile([ts EXCEPT ![i].hidden = TRUE]),
              response |-> OkResponse(<<>>)]

\* the request o run alone on the file f
SeqRun(f, o, id, fails) ==
  CASE o.kind = "get_teams" -> SeqGetTeams(f)
    [] o.kind = "add_team" -> SeqAddTeam(f, o.name, id, fails)
    [] o.kind = "change_score" -> SeqChangeScore(f, o.id, o.delta, fails)
    [] o.kind = "hide_team" -> SeqHideTeam(f, o.id, fails)

(* -------------------------------- Init -------------------------------- *)

\* __main__ writes an empty list when teams.json is missing; under a WSGI
\* server the module is imported and the file may still be missing
Init ==
  /\ file \in {AbsentFile, JsonFile(<<>>)}
  /\ locked = FALSE
  /\ pc = [p \in Procs |-> "idle"]
  /\ op = [p \in Procs |-> NoOp]
  /\ teams = [p \in Procs |-> <<>>]
  /\ response = [p \in Procs |-> NoResponse]
  /\ nextId = 1
  /\ started = 0
  /\ applied = [i \in 1..MaxRequests |-> <<>>]
  /\ committed = <<>>
  /\ everHidden = {}
  /\ seqFile = file
  /\ expected = [p \in Procs |-> NoResponse]

(* ------------------- requests arrive: code before the lock ------------ *)

\* team ids that requests name: every id issued so far and one that is not
ReqIds == 1..nextId

Accept(p) ==
  /\ pc[p] = "idle"
  /\ started < MaxRequests
  /\ started' = started + 1

\* a request returns before it takes the lock
Reject(p, o, r) ==
  /\ op' = [op EXCEPT ![p] = o]
  /\ response' = [response EXCEPT ![p] = r]
  /\ pc' = [pc EXCEPT ![p] = "done"]
  /\ expected' = [expected EXCEPT ![p] = r]
  /\ UNCHANGED <<file, locked, teams, nextId, applied>>
  /\ UNCHANGED <<committed, everHidden, seqFile>>

\* a request goes on to `with data_lock:`
Proceed(p, o) ==
  /\ op' = [op EXCEPT ![p] = o]
  /\ pc' = [pc EXCEPT ![p] = "wait"]
  /\ UNCHANGED <<file, locked, teams, response, nextId, applied>>
  /\ UNCHANGED <<committed, everHidden, seqFile, expected>>

GetTeamsStart(p) ==
  /\ Accept(p)
  /\ Proceed(p, [NoOp EXCEPT !.kind = "get_teams"])

AddTeamNameRequired(p) ==
  /\ Accept(p)
  /\ \E raw \in NameInputs :
       /\ strip(raw) = <<>>
       /\ Reject(p, [NoOp EXCEPT !.kind = "add_team", !.raw = raw,
                                   !.name = strip(raw)],
                 ErrorResponse(400, "Team name is required"))

AddTeamStart(p) ==
  /\ Accept(p)
  /\ \E raw \in NameInputs :
       /\ strip(raw) # <<>>
       /\ Proceed(p, [NoOp EXCEPT !.kind = "add_team", !.raw = raw,
                                   !.name = strip(raw)])

\* int(delta) raises TypeError or ValueError
ChangeScoreInvalidDelta(p) ==
  /\ Accept(p)
  /\ Reject(p, [NoOp EXCEPT !.kind = "change_score"],
            ErrorResponse(400, "Invalid delta"))

ChangeScoreMissingId(p) ==
  /\ Accept(p)
  /\ Reject(p, [NoOp EXCEPT !.kind = "change_score"],
            ErrorResponse(400, "Missing team id"))

ChangeScoreStart(p) ==
  /\ Accept(p)
  /\ \E i \in ReqIds, d \in Deltas :
       Proceed(p, [NoOp EXCEPT !.kind = "change_score", !.id = i, !.delta = d])

HideTeamStart(p) ==
  /\ Accept(p)
  /\ \E i \in ReqIds :
       Proceed(p, [NoOp EXCEPT !.kind = "hide_team", !.id = i])

(* ---------------------------- data_lock ------------------------------ *)

\* Acquire without waiting for the lock to be free
Acquire_NoExclusion(p) ==
  /\ pc[p] = "wait"
  /\ locked' = TRUE
  /\ pc' = [pc EXCEPT ![p] = "locked"]
  /\ UNCHANGED <<file, op, teams, response, nextId, started, applied>>
  /\ UNCHANGED <<committed, everHidden, seqFile, expected>>

\* `with data_lock:` entered
Acquire(p) ==
  /\ pc[p] = "wait"
  /\ ~locked
  /\ locked' = TRUE
  /\ pc' = [pc EXCEPT ![p] = "locked"]
  /\ UNCHANGED <<file, op, teams, response, nextId, started, applied>>
  /\ UNCHANGED <<committed, everHidden, seqFile, expected>>

\* LoadTeams with the lock scoped to the load alone, as in api_get_teams
LoadTeams_LockAroundLoadOnly(p) ==
  /\ pc[p] = "locked"
  /\ teams' = [teams EXCEPT ![p] = load_teams(file)]
  /\ locked' = FALSE
  /\ pc' = [pc EXCEPT ![p] = "loaded"]
  /\ UNCHANGED <<file, op, response, nextId, started, applied>>
  /\ UNCHANGED <<committed, everHidden, seqFile, expected>>

\* teams = load_teams()
LoadTeams(p) ==
  /\ pc[p] = "locked"
  /\ teams' = [teams EXCEPT ![p] = load_teams(file)]
  /\ pc' = [pc EXCEPT ![p] = "loaded"]
  /\ UNCHANGED <<file, locked, op, response, nextId, started, applied>>
  /\ UNCHANGED <<committed, everHidden, seqFile, expected>>

\* the id api_add_team has drawn for the team it appended
DrawnId(p) ==
  IF op[p].kind = "add_team" /\ Len(teams[p]) > 0
  THEN teams[p][Len(teams[p])].id ELSE 0

\* p's request leaves the lock: it takes its place in the run of the
\* requests one at a time
Leave(p, fails) ==
  LET run == SeqRun(seqFile, op[p], DrawnId(p), fails) IN
    /\ seqFile' = run.file
    /\ expected' = [expected EXCEPT ![p] = run.response]

\* ReturnInLock with a lock that is not released by a return
ReturnInLock_KeepsLock(p, r) ==
  /\ locked' = locked
  /\ response' = [response EXCEPT ![p] = r]
  /\ pc' = [pc EXCEPT ![p] = "done"]
  /\ Leave(p, FALSE)
  /\ UNCHANGED <<file, op, teams, nextId, started, applied>>
  /\ UNCHANGED <<committed, everHidden>>

\* a return inside `with data_lock:` releases the lock and ends the request
ReturnInLock(p, r) ==
  /\ locked' = FALSE
  /\ response' = [response EXCEPT ![p] = r]
  /\ pc' = [pc EXCEPT ![p] = "done"]
  /\ Leave(p, FALSE)
  /\ UNCHANGED <<file, op, teams, nextId, started, applied>>
  /\ UNCHANGED <<committed, everHidden>>

(* ------------------------- GET /api/teams ----------------------------- *)

\* the `with data_lock:` block of api_get_teams ends after the load
GetTeamsRelease(p) ==
  /\ pc[p] = "loaded"
  /\ op[p].kind = "get_teams"
  /\ locked' = FALSE
  /\ pc' = [pc EXCEPT ![p] = "respond"]
  /\ Leave(p, FALSE)
  /\ UNCHANGED <<file, op, teams, response, nextId, started, applied>>
  /\ UNCHANGED <<committed, everHidden>>

\* filter, sort and jsonify, outside the lock
GetTeamsRespond(p) ==
  /\ pc[p] = "respond"
  /\ response' = [response EXCEPT ![p] = OkResponse(SortDesc(Visible(teams[p])))]
  /\ pc' = [pc EXCEPT ![p] = "done"]
  /\ UNCHANGED <<file, locked, op, teams, nextId, started, applied>>
  /\ UNCHANGED <<committed, everHidden, seqFile, expected>>

(* ------------------------- POST /api/team ----------------------------- *)

\* NameTaken comparing the names as they are written
NameTaken_CaseSensitive(t, name) == ~t.hidden /\ t.name = name

\* NameTaken without the test of the hidden flag
NameTaken_IgnoresHidden(t, name) == lower(t.name) = lower(name)

\* not hidden and t["name"].lower() == name.lower()
NameTaken(t, name) == ~t.hidden /\ lower(t.name) = lower(name)

HasDuplicate(ts, name) == \E i \in DOMAIN ts : NameTaken(ts[i], name)

AddTeamConflict(p) ==
  /\ pc[p] = "loaded"
  /\ op[p].kind = "add_team"
  /\ HasDuplicate(teams[p], op[p].name)
  /\ ReturnInLock(p, ErrorResponse(400, "Team already exists"))

\* the dict built for a new team; uuid4 yields an id it has not issued
NewTeam(id, name) == [id |-> id, name |-> name, score |-> 0, hidden |-> FALSE]

\* AddTeamAppend numbering the team by its place in the list
AddTeamAppend_IdFromLength(p) ==
  /\ pc[p] = "loaded"
  /\ op[p].kind = "add_team"
  /\ ~HasDuplicate(teams[p], op[p].name)
  /\ teams' = [teams EXCEPT
                 ![p] = Append(@, NewTeam(Len(teams[p]) + 1, op[p].name))]
  /\ nextId' = nextId + 1
  /\ pc' = [pc EXCEPT ![p] = "save"]
  /\ UNCHANGED <<file, locked, op, response, started, applied>>
  /\ UNCHANGED <<committed, everHidden, seqFile, expected>>

AddTeamAppend(p) ==
  /\ pc[p] = "loaded"
  /\ op[p].kind = "add_team"
  /\ ~HasDuplicate(teams[p], op[p].name)
  /\ teams' = [teams EXCEPT ![p] = Append(@, NewTeam(nextId, op[p].name))]
  /\ nextId' = nextId + 1
  /\ pc' = [pc EXCEPT ![p] = "save"]
  /\ UNCHANGED <<file, locked, op, response, started, applied>>
  /\ UNCHANGED <<committed, everHidden, seqFile, expected>>

(* ------------------------- POST /api/score ---------------------------- *)

\* t.get("id") == team_id and not t.get("hidden", False)
ScoreTarget(ts, id) ==
  FirstIndex({i \in DOMAIN ts : ts[i].id = id /\ ~ts[i].hidden})

\* NewScore without the clamp
NewScore_NoClamp(score, delta) == score + delta

\* NewScore with the clamp on the delta instead of on the result
NewScore_ClampDelta(score, delta) == score + Max(0, delta)

\* t["score"] = max(0, int(t.get("score", 0)) + delta)
NewScore(score, delta) == Max(0, score + delta)

\* ChangeScoreApply without the test of the id: every visible team is changed
ChangeScoreApply_AllTeams(p) ==
  /\ pc[p] = "loaded"
  /\ op[p].kind = "change_score"
  /\ ScoreTarget(teams[p], op[p].id) # 0
  /\ teams' = [teams EXCEPT
                 ![p] = [i \in DOMAIN teams[p] |->
                           IF teams[p][i].hidden THEN teams[p][i]
                           ELSE [teams[p][i] EXCEPT
                                   !.score = NewScore(@, op[p].delta)]]]
  /\ pc' = [pc EXCEPT ![p] = "save"]
  /\ UNCHANGED <<file, locked, op, response, nextId, started, applied>>
  /\ UNCHANGED <<committed, everHidden, seqFile, expected>>

ChangeScoreApply(p) ==
  /\ pc[p] = "loaded"
  /\ op[p].kind = "change_score"
  /\ LET i == ScoreTarget(teams[p], op[p].id) IN
       /\ i # 0
       /\ teams' = [teams EXCEPT
                      ![p][i].score = NewScore(@, op[p].delta)]
  /\ pc' = [pc EXCEPT ![p] = "save"]
  /\ UNCHANGED <<file, locked, op, response, nextId, started, applied>>
  /\ UNCHANGED <<committed, everHidden, seqFile, expected>>

\* ChangeScoreNotFound with save_teams(teams) placed before the found test
ChangeScoreNotFound_SavesFirst(p) ==
  /\ pc[p] = "loaded"
  /\ op[p].kind = "change_score"
  /\ ScoreTarget(teams[p], op[p].id) = 0
  /\ file' = JsonFile(teams[p])
  /\ locked' = FALSE
  /\ response' = [response EXCEPT ![p] = ErrorResponse(404, "Team not found")]
  /\ pc' = [pc EXCEPT ![p] = "done"]
  /\ UNCHANGED <<op, teams, nextId, started, applied>>
  /\ UNCHANGED <<committed, everHidden, seqFile, expected>>

ChangeScoreNotFound(p) ==
  /\ pc[p] = "loaded"
  /\ op[p].kind = "change_score"
  /\ ScoreTarget(teams[p], op[p].id) = 0
  /\ ReturnInLock(p, ErrorResponse(404, "Team not found"))

(* --------------------- POST /api/team/<id>/hide ----------------------- *)

\* HideTarget passing over hidden records, as the loop of api_change_score
HideTarget_SkipsHidden(ts, id) ==
  FirstIndex({i \in DOMAIN ts : ts[i].id = id /\ ~ts[i].hidden})

\* t.get("id") == team_id
HideTarget(ts, id) == FirstIndex({i \in DOMAIN ts : ts[i].id = id})

\* HideTeamApply with t["hidden"] = not t["hidden"]
HideTeamApply_Toggle(p) ==
  /\ pc[p] = "loaded"
  /\ op[p].kind = "hide_team"
  /\ LET i == HideTarget(teams[p], op[p].id) IN
       /\ i # 0
       /\ teams' = [teams EXCEPT ![p][i].hidden = ~@]
  /\ pc' = [pc EXCEPT ![p] = "save"]
  /\ UNCHANGED <<file, locked, op, response, nextId, started, applied>>
  /\ UNCHANGED <<committed, everHidden, seqFile, expected>>

HideTeamApply(p) ==
  /\ pc[p] = "loaded"
  /\ op[p].kind = "hide_team"
  /\ LET i == HideTarget(teams[p], op[p].id) IN
       /\ i # 0
       /\ teams' = [teams EXCEPT ![p][i].hidden = TRUE]
  /\ pc' = [pc EXCEPT ![p] = "save"]
  /\ UNCHANGED <<file, locked, op, response, nextId, started, applied>>
  /\ UNCHANGED <<committed, everHidden, seqFile, expected>>

HideTeamNotFound(p) ==
  /\ pc[p] = "loaded"
  /\ op[p].kind = "hide_team"
  /\ HideTarget(teams[p], op[p].id) = 0
  /\ ReturnInLock(p, ErrorResponse(404, "Team not found"))

(* ----------------------------- save_teams ----------------------------- *)

\* open(DATA_FILE, "w") truncates teams.json
SaveOpen(p) ==
  /\ pc[p] = "save"
  /\ file' = TruncatedFile
  /\ pc' = [pc EXCEPT ![p] = "dump"]
  /\ UNCHANGED <<locked, op, teams, response, nextId, started, applied>>
  /\ UNCHANGED <<committed, everHidden, seqFile, expected>>

\* the ids of the records of ts that are hidden
HiddenIds(ts) == {ts[i].id : i \in {j \in DOMAIN ts : ts[j].hidden}}

\* json.dump writes the list and the file is closed
SaveDump(p) ==
  /\ pc[p] = "dump"
  /\ file' = JsonFile(teams[p])
  /\ applied' = IF op[p].kind = "change_score"
                THEN [applied EXCEPT ![op[p].id] = Append(@, op[p].delta)]
                ELSE applied
  /\ committed' = teams[p]
  /\ everHidden' = everHidden \cup HiddenIds(teams[p])
  /\ pc' = [pc EXCEPT ![p] = "saved"]
  /\ UNCHANGED <<locked, op, teams, response, nextId, started>>
  /\ UNCHANGED <<seqFile, expected>>

\* the write raises (OSError: disk full, I/O error): both `with` blocks
\* unwind, the lock is released and the request ends with a 500
SaveFail(p) ==
  /\ pc[p] = "dump"
  /\ locked' = FALSE
  /\ response' = [response EXCEPT ![p] =
                    ErrorResponse(500, "Internal Server Error")]
  /\ pc' = [pc EXCEPT ![p] = "done"]
  /\ Leave(p, TRUE)
  /\ UNCHANGED <<file, op, teams, nextId, started, applied>>
  /\ UNCHANGED <<committed, everHidden>>

\* the `with data_lock:` block ends and the handler returns its jsonify(...)
Respond(p) ==
  /\ pc[p] = "saved"
  /\ locked' = FALSE
  /\ response' = [response EXCEPT ![p] =
                    IF op[p].kind = "add_team"
                    THEN OkResponse(<<teams[p][Len(teams[p])]>>)
                    ELSE OkResponse(<<>>)]
  /\ pc' = [pc EXCEPT ![p] = "done"]
  /\ Leave(p, FALSE)
  /\ UNCHANGED <<file, op, teams, nextId, started, applied>>
  /\ UNCHANGED <<committed, everHidden>>

\* the response is sent and the thread is free for the next request
Return(p) ==
  /\ pc[p] = "done"
  /\ pc' = [pc EXCEPT ![p] = "idle"]
  /\ op' = [op EXCEPT ![p] = NoOp]
  /\ teams' = [teams EXCEPT ![p] = <<>>]
  /\ response' = [response EXCEPT ![p] = NoResponse]
  /\ expected' = [expected EXCEPT ![p] = NoResponse]
  /\ UNCHANGED <<file, locked, nextId, started, applied>>
  /\ UNCHANGED <<committed, everHidden, seqFile>>

(* ------------------------------- Next --------------------------------- *)

Next ==
  \E p \in Procs :
    \/ GetTeamsStart(p)
    \/ AddTeamNameRequired(p)
    \/ AddTeamStart(p)
    \/ ChangeScoreInvalidDelta(p)
    \/ ChangeScoreMissingId(p)
    \/ ChangeScoreStart(p)
    \/ HideTeamStart(p)
    \/ Acquire(p)
    \/ LoadTeams(p)
    \/ GetTeamsRelease(p)
    \/ GetTeamsRespond(p)
    \/ AddTeamConflict(p)
    \/ AddTeamAppend(p)
    \/ ChangeScoreApply(p)
    \/ ChangeScoreNotFound(p)
    \/ HideTeamApply(p)
    \/ HideTeamNotFound(p)
    \/ SaveOpen(p)
    \/ SaveDump(p)
    \/ SaveFail(p)
    \/ Respond(p)
    \/ Return(p)

Spec == Init /\ [][Next]_vars

\* the steps of a request that has been started
Finish(p) ==
  \/ Acquire(p)
  \/ LoadTeams(p)
  \/ GetTeamsRelease(p)
  \/ GetTeamsRespond(p)
  \/ AddTeamConflict(p)
  \/ AddTeamAppend(p)
  \/ ChangeScoreApply(p)
  \/ ChangeScoreNotFound(p)
  \/ HideTeamApply(p)
  \/ HideTeamNotFound(p)
  \/ SaveOpen(p)
  \/ SaveDump(p)
  \/ SaveFail(p)
  \/ Respond(p)
  \/ Return(p)

\* every thread that can go on with its request does so at some time
FairSpec == Spec /\ \A p \in Procs : WF_vars(Finish(p))

(* ------------- GET /api/teams on the file of an earlier run ----------- *)

\* the name of the i-th team of such a file: "A", "AA", ...
StoredName(i) == [k \in 1..i |-> "A"]

\* the ledgers of n teams an earlier run can have left: ids in the order of
\* insertion, any scores from 0 to MaxScore, any of the teams hidden
StoredLedgers(n) ==
  { [i \in 1..n |-> [id |-> i, name |-> StoredName(i),
                     score |-> sc[i], hidden |-> hd[i]]] :
      sc \in [1..n -> 0..MaxScore], hd \in [1..n -> BOOLEAN] }

ListInit ==
  /\ \E n \in 0..MaxLedger : \E l \in StoredLedgers(n) :
       /\ file = JsonFile(l)
       /\ nextId = n + 1
       /\ committed = l
       /\ everHidden = {i \in 1..n : l[i].hidden}
  /\ locked = FALSE
  /\ pc = [p \in Procs |-> "idle"]
  /\ op = [p \in Procs |-> NoOp]
  /\ teams = [p \in Procs |-> <<>>]
  /\ response = [p \in Procs |-> NoResponse]
  /\ started = 0
  /\ applied = [i \in 1..MaxRequests |-> <<>>]
  /\ seqFile = file
  /\ expected = [p \in Procs |-> NoResponse]

ListNext ==
  \E p \in Procs :
    \/ GetTeamsStart(p)
    \/ Acquire(p)
    \/ LoadTeams(p)
    \/ GetTeamsRelease(p)
    \/ GetTeamsRespond(p)
    \/ Return(p)

\* the server restarted on an existing teams.json, serving GET /api/teams
ListSpec == ListInit /\ [][ListNext]_vars

(* ------------------------------ properties ---------------------------- *)

\* the persisted ledger: the records of teams.json when it holds a list
Ledger == IF file.kind = "json" THEN json_load(file.data) ELSE <<>>

\* thread p holds data_lock or is between its load and the end of its save
InCritical(p) == pc[p] \in {"locked", "loaded", "save", "dump", "saved"}

\* p has returned from a request of this kind with this status code
Returned(p, kind, code) ==
  pc[p] = "done" /\ op[p].kind = kind /\ response[p].code = code

RECURSIVE SumSeq(_)
SumSeq(ds) == IF ds = <<>> THEN 0 ELSE SumSeq(Tail(ds)) + Head(ds)

\* the running score of the deltas ds applied in order to a score of 0,
\* cut off at 0 after every one of them
RECURSIVE ClampedRun(_)
ClampedRun(ds) ==
  IF ds = <<>> THEN 0
  ELSE LET v == ClampedRun(SubSeq(ds, 1, Len(ds) - 1)) + ds[Len(ds)]
       IN IF v < 0 THEN 0 ELSE v

\* two names are equal up to the case of their letters
SameLetter(a, b) ==
  \/ a = b
  \/ {a, b} = {"A", "a"}
  \/ {a, b} = {"B", "b"}

SameNameIgnoringCase(a, b) ==
  /\ Len(a) = Len(b)
  /\ \A i \in 1..Len(a) : SameLetter(a[i], b[i])

\* C1: no lost updates. When the last n score changes saved for a record
\* were all +1, whatever the interleaving of the requests that made them,
\* its persisted score is the score it had before them plus n.
C1_NoLostUpdates ==
  \A i \in DOMAIN Ledger :
    LET t == Ledger[i]
        a == applied[t.id]
    IN \A n \in 1..Len(a) :
         (\A k \in (Len(a) - n + 1)..Len(a) : a[k] = 1)
           => t.score = ClampedRun(SubSeq(a, 1, Len(a) - n)) + n

\* two threads have both returned 200 from change_score(id, +1) on the same
\* record and its persisted score is 2
C1_Witness ==
  \E p, q \in Procs :
    /\ p # q
    /\ Returned(p, "change_score", 200) /\ Returned(q, "change_score", 200)
    /\ op[p].id = op[q].id /\ op[p].delta = 1 /\ op[q].delta = 1
    /\ \E i \in DOMAIN Ledger :
         Ledger[i].id = op[p].id /\ Ledger[i].score = 2

\* C2: in every persisted ledger no two records that are not hidden have
\* names equal up to case.
C2_ActiveNamesUnique ==
  \A i, j \in DOMAIN Ledger :
    (i # j /\ ~Ledger[i].hidden /\ ~Ledger[j].hidden)
      => ~SameNameIgnoringCase(Ledger[i].name, Ledger[j].name)

\* an add of "a" was refused while "A" is an active team of the ledger
C2_Witness ==
  \E p \in Procs :
    /\ Returned(p, "add_team", 400)
    /\ op[p].name = <<"a">>
    /\ \E i \in DOMAIN Ledger : Ledger[i].name = <<"A">> /\ ~Ledger[i].hidden

\* C3: at most one thread is between taking data_lock and the end of its
\* save or its error return, and the lock is held exactly then.
C3_MutualExclusion ==
  /\ \A p, q \in Procs : (InCritical(p) /\ InCritical(q)) => p = q
  /\ locked <=> \E p \in Procs : InCritical(p)

\* one thread has changed its list and not saved it while another waits for
\* the lock
C3_Witness ==
  \E p, q \in Procs : pc[p] = "save" /\ pc[q] = "wait"

\* C4: an operation that loads a malformed teams.json does not go on with
\* the empty list.
C4_CorruptLoadIsFatal ==
  \A p \in Procs : pc[p] = "loaded" => file.kind # "malformed"

\* C5 as stated: the score of a record is max(0, sum of the deltas saved for
\* it).
C5_ScoreIsClampedTotal ==
  \A i \in DOMAIN Ledger :
    Ledger[i].score = Max(0, SumSeq(applied[Ledger[i].id]))

\* C5 amended: the score of a record is the running score of the deltas
\* saved for it, cut off at 0 after each call.
C5_ScoreIsClampedRun ==
  \A i \in DOMAIN Ledger :
    Ledger[i].score = ClampedRun(applied[Ledger[i].id])

\* a record took -2 and then +1 and its score is 1
C5_Witness ==
  \E i \in DOMAIN Ledger :
    applied[Ledger[i].id] = <<-2, 1>> /\ Ledger[i].score = 1

\* C6: change_score puts max(0, old + delta) in the first record of the
\* persisted ledger that has the id and is not hidden, saves that list, and
\* returns 200 also when the result was cut off at 0.
C6_ChangeScoreStep ==
  [][\A p \in Procs :
       op[p].kind = "change_score" =>
         /\ (pc[p] = "loaded" /\ pc'[p] = "save") =>
              \E i \in DOMAIN Ledger :
                /\ Ledger[i].id = op[p].id /\ ~Ledger[i].hidden
                /\ \A j \in 1..(i - 1) :
                     ~(Ledger[j].id = op[p].id /\ ~Ledger[j].hidden)
                /\ teams'[p][i].score =
                     (IF Ledger[i].score + op[p].delta < 0
                      THEN 0 ELSE Ledger[i].score + op[p].delta)
         /\ (pc[p] = "dump" /\ pc'[p] = "saved") => Ledger' = teams[p]
         /\ (pc[p] = "saved" /\ pc'[p] # "saved") =>
              (pc'[p] = "done" /\ response'[p].code = 200 /\ file' = file)
    ]_vars

\* change_score(id, -2) has returned 200 and the record's score is 0
C6_Witness ==
  \E p \in Procs :
    /\ Returned(p, "change_score", 200)
    /\ op[p].delta = -2
    /\ \E i \in DOMAIN Ledger :
         /\ Ledger[i].id = op[p].id /\ Ledger[i].score = 0
         /\ applied[op[p].id] = <<1, -2>>

\* C7: every score of every persisted ledger is >= 0.
C7_ScoresNonNegative ==
  \A i \in DOMAIN Ledger : Ledger[i].score >= 0

\* a negative delta was saved for a record of the ledger
C7_Witness ==
  \E i \in DOMAIN Ledger :
    \E k \in DOMAIN applied[Ledger[i].id] : applied[Ledger[i].id][k] < 0

\* C8: teams.json is never a truncated or partly written file.
C8_NoPartialWrite == file.kind # "malformed"

\* C9: a request that returns 400 or 404 leaves teams.json as it is, and
\* the file then still holds the list the request loaded.
C9_ErrorsChangeNothing ==
  [][\A p \in Procs :
       (pc[p] # "done" /\ pc'[p] = "done" /\ response'[p].code \in {400, 404})
         => /\ file' = file
            /\ pc[p] = "loaded" => load_teams(file) = teams[p]
    ]_vars

\* change_score returned 404 while the ledger holds a record
C9_Witness ==
  \E p \in Procs :
    /\ Returned(p, "change_score", 404)
    /\ Ledger # <<>>

\* C10: add_team is refused with "Team already exists" exactly when the
\* persisted ledger has a record that is not hidden and whose name equals
\* the trimmed name up to case; otherwise the add goes on to append.
C10_ConflictIffActiveName ==
  [][\A p \in Procs :
       (op[p].kind = "add_team" /\ pc[p] = "loaded" /\ pc'[p] # "loaded")
         => LET taken == \E i \in DOMAIN Ledger :
                           /\ ~Ledger[i].hidden
                           /\ SameNameIgnoringCase(Ledger[i].name, op[p].name)
            IN IF taken
               THEN pc'[p] = "done" /\ response'[p].code = 400
                    /\ response'[p].message = "Team already exists"
               ELSE pc'[p] = "save"
    ]_vars

\* "A" was added and hidden, and "a" was added after it
C10_Witness ==
  \E i, j \in DOMAIN Ledger :
    /\ i < j
    /\ Ledger[i].name = <<"A">> /\ Ledger[i].hidden
    /\ Ledger[j].name = <<"a">> /\ ~Ledger[j].hidden

\* C11: hide_team answers 404 only when the ledger it loaded has no record
\* with the id, hidden or not. Otherwise it saves the persisted ledger with
\* that record's hidden set, which is the same ledger when the record was
\* hidden already, so the record stays in the ledger; once it has returned
\* 200 every record with the id is hidden in the persisted ledger, and no
\* list_active result holds a record that the ledger it loaded has hidden.
C11_HideIdempotent ==
  /\ \A p \in Procs :
       op[p].kind = "hide_team" =>
         /\ Returned(p, "hide_team", 404) =>
              \A i \in DOMAIN teams[p] : teams[p][i].id # op[p].id
         /\ pc[p] = "save" =>
              \E i \in DOMAIN Ledger :
                /\ Ledger[i].id = op[p].id
                /\ teams[p] = [Ledger EXCEPT ![i].hidden = TRUE]
                /\ Ledger[i].hidden => teams[p] = Ledger
         /\ pc[p] = "saved" =>
              /\ Ledger = teams[p]
              /\ \E i \in DOMAIN Ledger :
                   Ledger[i].id = op[p].id /\ Ledger[i].hidden
         /\ Returned(p, "hide_team", 200) =>
              \A i \in DOMAIN Ledger :
                Ledger[i].id = op[p].id => Ledger[i].hidden
  /\ \A q \in Procs :
       Returned(q, "get_teams", 200) =>
         \A k \in DOMAIN response[q].body :
           \A i \in DOMAIN teams[q] :
             teams[q][i].hidden => response[q].body[k].id # teams[q][i].id

\* two hide_team calls on the same id have both returned 200 and the record
\* is still in the ledger, hidden
C11_Witness ==
  \E p, q \in Procs :
    /\ p # q
    /\ Returned(p, "hide_team", 200) /\ Returned(q, "hide_team", 200)
    /\ op[p].id = op[q].id
    /\ \E i \in DOMAIN Ledger : Ledger[i].id = op[p].id /\ Ledger[i].hidden

\* the place in the list ts of its record with this id
PlaceOf(ts, id) == CHOOSE i \in DOMAIN ts : ts[i].id = id

\* C12: a list_active result holds exactly the records of the ledger it
\* loaded that are not hidden, each once, a higher score before a lower one
\* and equal scores in the order of the ledger; the ledger it loads is the
\* persisted one, and two results for the same ledger are the same sequence.
C12_ListSortedVisible ==
  \A p \in Procs :
    /\ (op[p].kind = "get_teams" /\ pc[p] = "loaded") => teams[p] = Ledger
    /\ Returned(p, "get_teams", 200) =>
         LET L == teams[p]
             B == response[p].body
         IN /\ \A k \in DOMAIN B :
                 \E i \in DOMAIN L : L[i] = B[k] /\ ~L[i].hidden
            /\ \A i \in DOMAIN L :
                 ~L[i].hidden => \E k \in DOMAIN B : B[k] = L[i]
            /\ Len(B) = Cardinality({i \in DOMAIN L : ~L[i].hidden})
            /\ \A k, m \in DOMAIN B :
                 k < m =>
                   \/ B[k].score > B[m].score
                   \/ /\ B[k].score = B[m].score
                      /\ PlaceOf(L, B[k].id) < PlaceOf(L, B[m].id)
            /\ \A q \in Procs :
                 (Returned(q, "get_teams", 200) /\ teams[q] = L)
                   => response[q].body = B

\* a result lists the second record of the ledger before the first, which
\* has the lower score
C12_Witness ==
  \E p \in Procs :
    /\ Returned(p, "get_teams", 200)
    /\ Len(teams[p]) = 2
    /\ teams[p][1].score < teams[p][2].score
    /\ response[p].body = <<teams[p][2], teams[p][1]>>

\* C13: the list a list_active call has read, while it still holds the lock,
\* is the complete ledger teams.json holds (a missing file being the empty
\* ledger): it never reads a truncated or partly written file.
C13_ListReadsCompleteLedger ==
  \A p \in Procs :
    (op[p].kind = "get_teams" /\ pc[p] = "loaded")
      => /\ file.kind \in {"json", "absent"}
         /\ teams[p] = Ledger

\* C14: every ledger a save writes in full starts with the records of the
\* last ledger written in full before it, in the same order: no record is
\* removed, the ledger never gets shorter and no two records change places.
C14_RecordsNeverRemoved ==
  [][file'.kind = "json" =>
       /\ Len(Ledger') >= Len(committed)
       /\ \A i \in DOMAIN committed : Ledger'[i].id = committed[i].id
    ]_vars

\* C15: a record that a completed save has written hidden is hidden in every
\* persisted ledger after it.
C15_HiddenMonotonic ==
  \A i \in DOMAIN Ledger : Ledger[i].id \in everHidden => Ledger[i].hidden

\* the first record was hidden and a team was added after that: the ledger
\* was written again and the first record is still hidden
C15_Witness ==
  /\ Len(Ledger) = 2
  /\ Ledger[1].hidden /\ Ledger[1].id \in everHidden
  /\ ~Ledger[2].hidden

\* C16: the ids of a persisted ledger are pairwise distinct, hidden records
\* counted, and all of them were issued; the id of a record being added is
\* the one issued last, above the id of every record of the list it joins
\* and of the last ledger written in full.
C16_IdsUnique ==
  /\ \A i, j \in DOMAIN Ledger : Ledger[i].id = Ledger[j].id => i = j
  /\ \A i \in DOMAIN Ledger : Ledger[i].id < nextId
  /\ \A p \in Procs :
       (op[p].kind = "add_team" /\ pc[p] = "save") =>
         LET n == Len(teams[p])
             new == teams[p][n]
         IN /\ new.id = nextId - 1
            /\ \A i \in 1..(n - 1) : teams[p][i].id < new.id
            /\ \A i \in DOMAIN committed : committed[i].id < new.id

\* team "A" was hidden and a team "A" added again: two records, two ids
C16_Witness ==
  /\ Len(Ledger) = 2
  /\ Ledger[1].name = <<"A">> /\ Ledger[1].hidden
  /\ Ledger[2].name = <<"A">>
  /\ Ledger[1].id # Ledger[2].id

\* a run of n spaces
Spaces(n) == [k \in 1..n |-> " "]

\* name is raw without the whitespace around it
IsTrimOf(name, raw) ==
  /\ name # <<>>
  /\ name[1] # " " /\ name[Len(name)] # " "
  /\ \E a, b \in 0..Len(raw) : raw = Spaces(a) \o name \o Spaces(b)

\* C17: add_team saves the persisted ledger (the empty one when teams.json
\* is missing) with exactly one record appended, whose name is the trimmed
\* input, score 0 and hidden false, and returns that record.
C17_AddAppendsOne ==
  \A p \in Procs :
    op[p].kind = "add_team" =>
      /\ pc[p] = "save" =>
           LET n == Len(teams[p]) IN
             /\ n = Len(Ledger) + 1
             /\ SubSeq(teams[p], 1, n - 1) = Ledger
             /\ IsTrimOf(teams[p][n].name, op[p].raw)
             /\ teams[p][n].score = 0
             /\ teams[p][n].hidden = FALSE
             /\ file.kind = "absent" => n = 1
      /\ pc[p] = "saved" => Ledger = teams[p]
      /\ Returned(p, "add_team", 200) =>
           /\ response[p].body = <<teams[p][Len(teams[p])]>>
           /\ IsTrimOf(response[p].body[1].name, op[p].raw)

\* add_team(" a ") has returned the first record of the ledger, named "a"
C17_Witness ==
  \E p \in Procs :
    /\ Returned(p, "add_team", 200)
    /\ op[p].raw = <<" ", "a", " ">>
    /\ Ledger = response[p].body
    /\ Ledger[1].name = <<"a">>

\* the least index of a non-empty set of indexes
Least(S) == CHOOSE i \in S : \A j \in S : i <= j

\* C18: the list a request is about to save differs from the persisted
\* ledger in one field only: change_score in the score of the first record
\* with the id that is not hidden, hide_team in the hidden flag of the first
\* record with the id, add_team in nothing but the record it appends; the
\* save writes that list; get_teams never comes to a save.
C18_FrameConditions ==
  \A p \in Procs :
    /\ (op[p].kind = "change_score" /\ pc[p] = "save") =>
         LET S == {j \in DOMAIN Ledger :
                     Ledger[j].id = op[p].id /\ ~Ledger[j].hidden}
         IN /\ S # {}
            /\ teams[p] = [Ledger EXCEPT
                             ![Least(S)].score = teams[p][Least(S)].score]
    /\ (op[p].kind = "hide_team" /\ pc[p] = "save") =>
         LET S == {j \in DOMAIN Ledger : Ledger[j].id = op[p].id}
         IN /\ S # {}
            /\ teams[p] = [Ledger EXCEPT
                             ![Least(S)].hidden = teams[p][Least(S)].hidden]
    /\ (op[p].kind = "add_team" /\ pc[p] = "save") =>
         /\ Len(teams[p]) >= Len(Ledger)
         /\ \A i \in DOMAIN Ledger : teams[p][i] = Ledger[i]
    /\ pc[p] = "saved" => Ledger = teams[p]
    /\ op[p].kind = "get_teams" => pc[p] \notin {"save", "dump", "saved"}

\* a score change is about to be saved to a ledger of two records
C18_Witness ==
  \E p \in Procs :
    /\ op[p].kind = "change_score" /\ pc[p] = "save"
    /\ Len(Ledger) = 2
    /\ teams[p] # Ledger

\* C19: whenever the lock is free teams.json is what the requests that have
\* left the lock so far leave behind when run one at a time in that order,
\* and every response is the one its request gets in that run.
C19_Linearizable ==
  /\ ~locked => file = seqFile
  /\ \A p \in Procs : pc[p] = "done" => response[p] = expected[p]

\* two requests that waited for the lock together have both returned 200
\* and their changes are both in the ledger
C19_Witness ==
  \E p, q \in Procs :
    /\ p # q
    /\ Returned(p, "add_team", 200) /\ Returned(q, "change_score", 200)
    /\ ~locked /\ Len(Ledger) = 2 /\ file = seqFile
    /\ \E i \in DOMAIN Ledger : Ledger[i].score > 0

\* C20: every step on which a thread leaves its `with data_lock:` block,
\* the returns inside it included, leaves the lock free; when no request is
\* inside the block the lock is free; whenever a request is in progress
\* some thread can take a step of its request; and every request that has
\* been started returns.
C20_LockReleased ==
  /\ [][\A p \in Procs : (InCritical(p) /\ ~InCritical(p)') => ~locked']_vars
  /\ []((\A p \in Procs : ~InCritical(p)) => ~locked)
  /\ []((\E p \in Procs : pc[p] # "idle") => \E p \in Procs : ENABLED Finish(p))
  /\ \A p \in Procs : (pc[p] = "wait") ~> (pc[p] = "done")

\* a request has returned from inside the block with an error and another
\* thread, which waited meanwhile, has taken the lock after it
C20_Witness ==
  \E p, q \in Procs :
    /\ pc[p] = "done"
    /\ response[p].message \in {"Team already exists", "Team not found"}
    /\ pc[q] = "locked"

====
